---- MODULE Spec2Model ----
(***************************************************************************)
(* Model of source/easeOfAccess.py (Ease of Access registration, auto      *)
(* start list, Windows+U key chord) and of the announcement handlers of    *)
(* source/appModules/outlook.py.                                           *)
(*                                                                         *)
(* The registry is the only persistent state of easeOfAccess.py.  One hive *)
(* (the hkey argument) is modelled; the functions never look at a second.  *)
(* A registry string is a finite sequence of symbols: the separator ","    *)
(* and indivisible comma-free fragments.  An identifier is the sequence of *)
(* fragments between two separators, so "x" followed by "nvda_nvda_v1" is  *)
(* the identifier xnvda_nvda_v1 and differs from APP_KEY_NAME.             *)
(***************************************************************************)
EXTENDS Integers, Sequences, FiniteSets, TLC

VARIABLES
    rootKey,      \* state of hkey\ROOT_KEY: "missing", "noaccess", "readonly", "readwrite"
    cfgState,     \* state of its "Configuration" value: "missing", "unreadable", "present"
    cfgValue,     \* the REG_SZ data of "Configuration" when present, else <<>>
    atKey,        \* state of HKLM\APP_KEY_PATH: "missing", "noaccess", "present"
    tempKey,      \* HKCU\...\AccessibilityTemp: "ok" (CreateKey and SetValueEx succeed), "noaccess"
    tempValue,    \* the REG_DWORD stored under AccessibilityTemp\nvda_nvda_v1, NoValue when absent
    keysDown,     \* the virtual keys that are down (what getAsyncKeyState reports)
    lastCall,     \* the most recent call: its name, arguments, outcome and external effects
    row,          \* a UIAGridRow with what its properties, children and the Outlook object model answer
    focus,        \* a SuperGridClient2010 with the Outlook version and what UIA answers
    _lastStartDate,  \* CalendarView._lastStartDate, NoDate for None
    lastRange,    \* history: the start and end date of the latest _generateTimeRangeText call
    listNativeOm,     \* whether the MessageList_pre2003 has an Outlook object model (self.nativeOm)
    listSelection,    \* what nativeOm.ActiveExplorer().selection[0] answers
    curMessageItem,  \* MessageList_pre2003.curMessageItem, NoItem while the attribute is not set
    focusedItem   \* history: the item of the latest executed message-item gainFocus event

eoaVars == <<rootKey, cfgState, cfgValue, atKey, tempKey, tempValue, keysDown>>
messageListVars == <<listNativeOm, listSelection, curMessageItem, focusedItem>>
outlookVars == <<row, focus, _lastStartDate, lastRange, messageListVars>>
vars == <<rootKey, cfgState, cfgValue, atKey, tempKey, tempValue, keysDown, lastCall,
          row, focus, _lastStartDate, lastRange,
          listNativeOm, listSelection, curMessageItem, focusedItem>>

(***************************************************************************)
(* Bounds                                                                  *)
(***************************************************************************)
MaxLen == 5        \* longest initial "Configuration" string, in symbols
MaxSignal == 2     \* signals passed to notify are 1..MaxSignal
MaxChildren == 1   \* most children of a UIAGridRow
MaxDay == 2        \* calendar days are 1..MaxDay
MaxEntryID == 3    \* the entryIDs of messages are 1..MaxEntryID

(***************************************************************************)
(* Strings                                                                 *)
(***************************************************************************)
Comma == ","
APP_KEY_NAME == <<"nvda_nvda_v1">>
Alphabet == {Comma, "nvda_nvda_v1", "x"}
Strings(n) == UNION {[1..k -> Alphabet] : k \in 0..n}
NoValue == 0

Range(s) == {s[i] : i \in 1..Len(s)}

\* str.split(","): always at least one element; "" gives [""].
RECURSIVE Split(_)
Split(s) ==
    IF s = <<>> THEN << <<>> >>
    ELSE LET r == Split(Tail(s)) IN
         IF Head(s) = Comma THEN << <<>> >> \o r
         ELSE << <<Head(s)>> \o r[1] >> \o Tail(r)

\* A join that forgets the separator.
RECURSIVE JoinNoSeparator(_)
JoinNoSeparator(l) ==
    IF l = <<>> THEN <<>> ELSE l[1] \o JoinNoSeparator(Tail(l))

\* ",".join(conf)
RECURSIVE Join(_)
Join(l) ==
    IF l = <<>> THEN <<>>
    ELSE IF Len(l) = 1 THEN l[1]
    ELSE l[1] \o <<Comma>> \o Join(Tail(l))

\* list.remove(x): removes the first occurrence; the caller has checked x is in l.
RECURSIVE RemoveFirst(_, _)
RemoveFirst(l, x) ==
    IF l = <<>> THEN <<>>
    ELSE IF Head(l) = x THEN Tail(l)
    ELSE <<Head(l)>> \o RemoveFirst(Tail(l), x)

(***************************************************************************)
(* winreg                                                                  *)
(***************************************************************************)
\* winreg.OpenKey(hkey, ROOT_KEY, 0, KEY_READ | KEY_WOW64_64KEY)
OpenRootKeyForRead ==
    CASE rootKey = "missing" -> "FileNotFoundError"
      [] rootKey = "noaccess" -> "WindowsError"
      [] OTHER -> "ok"

\* winreg.OpenKey(hkey, ROOT_KEY, 0, KEY_READ | KEY_WRITE | KEY_WOW64_64KEY)
OpenRootKeyForWrite ==
    CASE rootKey = "missing" -> "FileNotFoundError"
      [] rootKey \in {"noaccess", "readonly"} -> "WindowsError"
      [] OTHER -> "ok"

\* winreg.QueryValueEx(k, "Configuration") on an opened key
QueryConfiguration ==
    CASE cfgState = "missing" -> "FileNotFoundError"
      [] cfgState = "unreadable" -> "WindowsError"
      [] OTHER -> "ok"

\* winreg.OpenKey(HKEY_LOCAL_MACHINE, APP_KEY_PATH, 0, KEY_READ | KEY_WOW64_64KEY)
OpenATKey ==
    CASE atKey = "missing" -> "FileNotFoundError"
      [] atKey = "noaccess" -> "WindowsError"
      [] OTHER -> "ok"

(***************************************************************************)
(* easeOfAccess.py: the read-only operations.  Each gives the exception it *)
(* lets escape ("none" when it returns) and the value it returns.          *)
(***************************************************************************)
Returned(v) == [raised |-> "none", value |-> v]

\* isRegistered with the "except WindowsError" clause left out.
isRegisteredUncaught ==
    CASE OpenATKey = "ok" -> Returned(TRUE)
      [] OpenATKey = "FileNotFoundError" -> Returned(FALSE)
      [] OTHER -> [raised |-> OpenATKey, value |-> FALSE]

isRegistered ==
    CASE OpenATKey = "ok" -> Returned(TRUE)
      [] OpenATKey = "FileNotFoundError" -> Returned(FALSE)   \* log.debug
      [] OpenATKey = "WindowsError" -> Returned(FALSE)        \* log.error

\* _getAutoStartConfiguration with the "except WindowsError" clause of the query left out.
getAutoStartConfigurationUncaught ==
    IF OpenRootKeyForRead # "ok" THEN Returned(<<>>)
    ELSE IF QueryConfiguration = "FileNotFoundError" THEN Returned(<<>>)
    ELSE IF QueryConfiguration = "WindowsError" THEN [raised |-> "WindowsError", value |-> <<>>]
    ELSE LET conf == Split(cfgValue) IN
         IF conf[1] = <<>> THEN Returned(Tail(conf)) ELSE Returned(conf)

\* _getAutoStartConfiguration: the value it returns; no exception escapes it.
_getAutoStartConfiguration ==
    IF OpenRootKeyForRead = "FileNotFoundError" THEN Returned(<<>>)
    ELSE IF OpenRootKeyForRead = "WindowsError" THEN Returned(<<>>)
    ELSE IF QueryConfiguration = "FileNotFoundError" THEN Returned(<<>>)
    ELSE IF QueryConfiguration = "WindowsError" THEN Returned(<<>>)
    ELSE LET conf == Split(cfgValue) IN
         IF conf[1] = <<>> THEN Returned(Tail(conf)) ELSE Returned(conf)

willAutoStart ==
    LET c == _getAutoStartConfiguration IN
    IF c.raised # "none" THEN [raised |-> c.raised, value |-> FALSE]
    ELSE Returned(APP_KEY_NAME \in Range(c.value))

(***************************************************************************)
(* Initial registry                                                        *)
(***************************************************************************)
IdleCall == [op |-> "none"]

RegistryInit ==
    /\ rootKey \in {"missing", "noaccess", "readonly", "readwrite"}
    /\ cfgState \in {"missing", "unreadable", "present"}
    /\ rootKey = "missing" => cfgState = "missing"
    /\ cfgValue \in Strings(MaxLen)
    /\ cfgState # "present" => cfgValue = <<>>
    /\ atKey \in {"missing", "noaccess", "present"}

RegistryFixed ==
    /\ rootKey = "readwrite"
    /\ cfgState = "present"
    /\ cfgValue = <<>>

NotifyIdle ==
    /\ tempKey = "ok"
    /\ tempValue = NoValue
    /\ keysDown = {}

(***************************************************************************)
(* easeOfAccess.py: setAutoStart                                           *)
(***************************************************************************)
\* Enabling that overwrites the list instead of appending to it.
setAutoStartConfOverwrite(enable) ==
    LET conf == _getAutoStartConfiguration.value
        currentlyEnabled == APP_KEY_NAME \in Range(conf)
    IN  IF enable /\ ~currentlyEnabled
        THEN [conf |-> <<APP_KEY_NAME>>, changed |-> "True"]
        ELSE IF ~enable /\ currentlyEnabled
        THEN [conf |-> RemoveFirst(conf, APP_KEY_NAME), changed |-> "True"]
        ELSE [conf |-> conf, changed |-> "unbound"]

\* conf after lines 102-112, and whether the local "changed" was ever assigned.
setAutoStartConf(enable) ==
    LET conf == _getAutoStartConfiguration.value
        currentlyEnabled == APP_KEY_NAME \in Range(conf)
    IN  IF enable /\ ~currentlyEnabled
        THEN [conf |-> Append(conf, APP_KEY_NAME), changed |-> "True"]
        ELSE IF ~enable
        THEN IF currentlyEnabled
             THEN [conf |-> RemoveFirst(conf, APP_KEY_NAME), changed |-> "True"]
             ELSE [conf |-> conf, changed |-> "unbound"]      \* except ValueError: pass
        ELSE [conf |-> conf, changed |-> "unbound"]

\* How setAutoStart(hkey, enable) ends ("none": it returns) and what it stores.
setAutoStart(enable) ==
    LET plan == setAutoStartConf(enable) IN
    IF plan.changed = "unbound"
    THEN [raised |-> "UnboundLocalError", wrote |-> FALSE, data |-> <<>>]  \* "if changed:"
    ELSE IF OpenRootKeyForWrite # "ok"
    THEN [raised |-> OpenRootKeyForWrite, wrote |-> FALSE, data |-> <<>>]
    ELSE [raised |-> "none", wrote |-> TRUE, data |-> Join(plan.conf)]     \* SetValueEx

(***************************************************************************)
(* easeOfAccess.py: notify                                                 *)
(***************************************************************************)
Modifiers == <<"VK_SHIFT", "VK_CONTROL", "VK_MENU">>
LeftWindows == "0x5B"
KeyU == "0x55"

Reverse(s) == [i \in 1..Len(s) |-> s[Len(s) + 1 - i]]

\* The held modifiers, in the order notify asks getAsyncKeyState about them.
HeldModifiers(down) == SelectSeq(Modifiers, LAMBDA vk : vk \in down)

\* keys of lines 46-52: (vk, desired) pairs
notifyKeys(down) ==
    [i \in 1..Len(HeldModifiers(down)) |-> [vk |-> HeldModifiers(down)[i], desired |-> FALSE]]
    \o <<[vk |-> LeftWindows, desired |-> TRUE], [vk |-> KeyU, desired |-> TRUE]>>

\* The second loop going over keys forwards instead of reversed(keys).
notifyInputsNotReversed(keys) ==
    [i \in 1..Len(keys) |-> [vk |-> keys[i].vk, keyUp |-> ~keys[i].desired]]
    \o [i \in 1..Len(keys) |-> [vk |-> keys[i].vk, keyUp |-> keys[i].desired]]

\* inputs of lines 53-67: KEYEVENTF_KEYUP is set on an undesired key in the
\* first loop and on a desired key in the second, which runs over reversed(keys).
notifyInputs(keys) ==
    [i \in 1..Len(keys) |-> [vk |-> keys[i].vk, keyUp |-> ~keys[i].desired]]
    \o [i \in 1..Len(keys) |->
            [vk |-> Reverse(keys)[i].vk, keyUp |-> Reverse(keys)[i].desired]]

\* The keys that are down once the system has played the first n inputs.
RECURSIVE KeysAfter(_, _, _)
KeysAfter(down, inputs, n) ==
    IF n = 0 THEN down
    ELSE LET before == KeysAfter(down, inputs, n - 1) IN
         IF inputs[n].keyUp THEN before \ {inputs[n].vk} ELSE before \cup {inputs[n].vk}

\* notify without the isRegistered test of lines 42-43.
notifyIgnoringRegistration(signal) ==
    IF tempKey # "ok"
    THEN [raised |-> "WindowsError", effects |-> <<>>]
    ELSE [raised |-> "none",
          effects |-> <<[kind |-> "SetValueEx", value |-> signal, inputs |-> <<>>],
                        [kind |-> "SendInput", value |-> NoValue,
                         inputs |-> notifyInputs(notifyKeys(keysDown))]>>]

\* What notify(signal) does: the exception it ends with and its effects in order.
notify(signal) ==
    IF ~isRegistered.value
    THEN [raised |-> "none", effects |-> <<>>]
    ELSE IF tempKey # "ok"
    THEN [raised |-> "WindowsError", effects |-> <<>>]     \* CreateKey / SetValueEx, not caught
    ELSE [raised |-> "none",
          effects |-> <<[kind |-> "SetValueEx", value |-> signal, inputs |-> <<>>],
                        [kind |-> "SendInput", value |-> NoValue,
                         inputs |-> notifyInputs(notifyKeys(keysDown))]>>]

(***************************************************************************)
(* easeOfAccess.py: calls                                                  *)
(***************************************************************************)
CallIsRegistered ==
    /\ lastCall' = [op |-> "isRegistered", raised |-> isRegistered.raised,
                    result |-> isRegistered.value]
    /\ UNCHANGED <<eoaVars, outlookVars>>

CallWillAutoStart ==
    /\ lastCall' = [op |-> "willAutoStart", raised |-> willAutoStart.raised,
                    result |-> willAutoStart.value,
                    conf |-> _getAutoStartConfiguration.value]
    /\ UNCHANGED <<eoaVars, outlookVars>>

CallSetAutoStart(enable) ==
    LET r == setAutoStart(enable) IN
    /\ IF r.wrote
       THEN cfgState' = "present" /\ cfgValue' = r.data
       ELSE UNCHANGED <<cfgState, cfgValue>>
    /\ lastCall' = [op |-> "setAutoStart", enable |-> enable, raised |-> r.raised,
                    wrote |-> r.wrote, wasEnabled |-> willAutoStart.value]
    /\ UNCHANGED <<rootKey, atKey, tempKey, tempValue, keysDown, outlookVars>>

\* The registry and keyboard once the effects of a notify call have happened.
RECURSIVE PlayEffects(_, _)
PlayEffects(st, effects) ==
    IF effects = <<>> THEN st
    ELSE LET e == Head(effects)
             next == IF e.kind = "SetValueEx"
                     THEN [st EXCEPT !.tempValue = e.value]
                     ELSE [st EXCEPT !.keysDown = KeysAfter(st.keysDown, e.inputs, Len(e.inputs))]
         IN  PlayEffects(next, Tail(effects))

CallNotify(signal) ==
    LET r == notify(signal)
        after == PlayEffects([tempValue |-> tempValue, keysDown |-> keysDown], r.effects)
    IN
    /\ tempValue' = after.tempValue
    /\ keysDown' = after.keysDown
    /\ lastCall' = [op |-> "notify", signal |-> signal, raised |-> r.raised,
                    effects |-> r.effects]
    /\ UNCHANGED <<rootKey, cfgState, cfgValue, atKey, tempKey, outlookVars>>

(***************************************************************************)
(* appModules/outlook.py: UIAGridRow._get_name                             *)
(*                                                                         *)
(* A read of a COM property either gives a value (ok) or raises COMError.  *)
(* The name is the list textList, whose elements _get_name joins with " ". *)
(***************************************************************************)
Read(v) == [ok |-> TRUE, value |-> v]
Fails(v) == [ok |-> FALSE, value |-> v]

Label(t) == [kind |-> "label", header |-> "", text |-> t]
\* u"{header} {name}".format(...) + "," and child.name + ","
ColumnText(header, name) == [kind |-> "column", header |-> header, text |-> name]

\* The kinds of child a row has: a nested row, a graphic, an unnamed cell, a
\* named cell without and with a column header.
ChildKinds ==
    {[isGridRow |-> TRUE, role |-> "ROLE_TABLEROW", name |-> "Thread", columnHeaderText |-> ""],
     [isGridRow |-> FALSE, role |-> "ROLE_GRAPHIC", name |-> "Icon", columnHeaderText |-> "Icon"],
     [isGridRow |-> FALSE, role |-> "ROLE_TABLECELL", name |-> "", columnHeaderText |-> "From"],
     [isGridRow |-> FALSE, role |-> "ROLE_TABLECELL", name |-> "Hello", columnHeaderText |-> ""],
     [isGridRow |-> FALSE, role |-> "ROLE_TABLECELL", name |-> "Alice", columnHeaderText |-> "From"]}

\* importanceLabels.get(importance)
importanceLabels(importance) ==
    CASE importance = 2 -> "high importance"
      [] importance = 0 -> "low importance"
      [] OTHER -> ""

\* lines 391-394
stateText(r) ==
    IF "STATE_EXPANDED" \in r.states THEN <<Label("expanded")>>
    ELSE IF "STATE_COLLAPSED" \in r.states THEN <<Label("collapsed")>>
    ELSE <<>>

\* lines 395-400: "item", or "None" when there is no object model, when the
\* fetch raises COMError or when it gives None.
fetchSelection(r) ==
    IF ~r.nativeOm THEN "None"
    ELSE IF r.selection = "COMError" THEN "None"
    ELSE r.selection

\* Each read of lines 402-423: the exception that escapes it, and its value.
readUnread(r) ==
    IF r.unread.ok THEN Returned(r.unread.value) ELSE Returned(FALSE)

readAttachmentCount(r) ==
    IF r.attachmentCount.ok THEN Returned(r.attachmentCount.value) ELSE Returned(0)

\* The read of importance outside any try block.
readImportanceUncaught(r) ==
    IF r.importance.ok THEN Returned(r.importance.value)
    ELSE [raised |-> "COMError", value |-> 1]

readImportance(r) ==
    IF r.importance.ok THEN Returned(r.importance.value) ELSE Returned(1)

readMessageClass(r) ==
    IF r.messageClass.ok THEN Returned(r.messageClass.value) ELSE Returned("None")

\* lines 401-426
selectionText(r) ==
    IF fetchSelection(r) = "None" THEN <<>>
    ELSE (IF readUnread(r).value THEN <<Label("unread")>> ELSE <<>>)
         \o (IF readAttachmentCount(r).value > 0 THEN <<Label("has attachment")>> ELSE <<>>)
         \o (IF importanceLabels(readImportance(r).value) # ""
             THEN <<Label(importanceLabels(readImportance(r).value))>> ELSE <<>>)
         \o (IF readMessageClass(r).value = "IPM.Schedule.Meeting.Request"
             THEN <<Label("meeting request")>> ELSE <<>>)

\* The first exception that escapes the reads of lines 401-426, "none" if none.
selectionRaised(r) ==
    IF fetchSelection(r) = "None" THEN "none"
    ELSE LET rs == <<readUnread(r).raised, readAttachmentCount(r).raised,
                     readImportance(r).raised, readMessageClass(r).raised>>
             bad == SelectSeq(rs, LAMBDA x : x # "none")
         IN  IF bad = <<>> THEN "none" ELSE bad[1]

\* lines 427-437
RECURSIVE childrenText(_, _)
childrenText(children, reportTableHeaders) ==
    IF children = <<>> THEN <<>>
    ELSE LET child == Head(children)
             rest == childrenText(Tail(children), reportTableHeaders)
         IN  IF child.isGridRow \/ child.role = "ROLE_GRAPHIC" \/ child.name = ""
             THEN rest
             ELSE IF reportTableHeaders /\ child.columnHeaderText # ""
             THEN <<ColumnText(child.columnHeaderText, child.name)>> \o rest
             ELSE <<ColumnText("", child.name)>> \o rest

\* UIAGridRow._get_name: everything after a raising read is skipped.
_get_name(r) ==
    IF selectionRaised(r) # "none"
    THEN [raised |-> selectionRaised(r), name |-> <<>>]
    ELSE [raised |-> "none",
          name |-> stateText(r) \o selectionText(r)
                   \o childrenText(r.children, r.reportTableHeaders)]

Call_get_name ==
    /\ lastCall' = [op |-> "_get_name", raised |-> _get_name(row).raised,
                    name |-> _get_name(row).name]
    /\ UNCHANGED <<eoaVars, outlookVars>>

(***************************************************************************)
(* appModules/outlook.py: SuperGridClient2010.event_gainFocus              *)
(***************************************************************************)
UIAMinOutlookVersion == 14

\* The test of line 157 with <= in place of <.
usesIAccessibleFocusOffByOne(f) ==
    f.outlookVersion <= UIAMinOutlookVersion \/ ~f.handler

\* line 157
usesIAccessibleFocus(f) ==
    f.outlookVersion < UIAMinOutlookVersion \/ ~f.handler

\* The events event_gainFocus produces, in order.
SuperGridClient2010_event_gainFocus(f) ==
    IF usesIAccessibleFocus(f)
    THEN <<[kind |-> "super.event_gainFocus", objClass |-> "", objParent |-> ""]>>
    ELSE IF f.uiaFocus \in {"COMError", "RuntimeError"}         \* bare except
    THEN <<[kind |-> "super.event_gainFocus", objClass |-> "", objParent |-> ""]>>
    ELSE IF f.uiaFocus # "UIAGridRow"
    THEN <<[kind |-> "super.event_gainFocus", objClass |-> "", objParent |-> ""]>>
    ELSE <<[kind |-> "executeEvent gainFocus", objClass |-> f.uiaFocus,
            objParent |-> f.parent]>>                           \* obj.parent=self.parent

Call_event_gainFocus ==
    /\ lastCall' = [op |-> "event_gainFocus",
                    events |-> SuperGridClient2010_event_gainFocus(focus)]
    /\ UNCHANGED <<eoaVars, outlookVars>>

(***************************************************************************)
(* appModules/outlook.py: CalendarView                                     *)
(*                                                                         *)
(* A time is a day and a time of day.  A text is the list of its parts: a  *)
(* long date, a time without seconds, and the word "to".                   *)
(***************************************************************************)
NoDate == 0
NoRange == [start |-> NoDate, end |-> NoDate]
CalendarMinOutlookVersion == 13

DateText(t) == [kind |-> "date", value |-> t.day]     \* winKernel.GetDateFormat
TimeText(t) == [kind |-> "time", value |-> t.time]    \* winKernel.GetTimeFormat
ToWord == [kind |-> "to", value |-> 0]

\* A start date that is left out whenever it equals the stored one.
generateTimeRangeTextIgnoringEnd(startTime, endTime, last) ==
    (IF last = NoDate \/ startTime.day # last
     THEN <<DateText(startTime)>> ELSE <<>>)
    \o <<TimeText(startTime), ToWord>>
    \o (IF endTime.day # startTime.day THEN <<DateText(endTime)>> ELSE <<>>)
    \o <<TimeText(endTime)>>

\* The text _generateTimeRangeText returns when _lastStartDate is last.
_generateTimeRangeText(startTime, endTime, last) ==
    (IF last = NoDate \/ startTime.day # last \/ endTime.day # startTime.day
     THEN <<DateText(startTime)>> ELSE <<>>)
    \o <<TimeText(startTime), ToWord>>
    \o (IF endTime.day # startTime.day THEN <<DateText(endTime)>> ELSE <<>>)
    \o <<TimeText(endTime)>>

\* What reportFocus does: which branch it takes, whether it calls
\* _generateTimeRangeText, and the message it speaks.
reportFocus(c) ==
    IF c.outlookVersion >= CalendarMinOutlookVersion /\ c.nativeOm
    THEN IF c.selectionCount > 0
         THEN IF ~c.readOk
              THEN [path |-> "super.reportFocus", called |-> FALSE, prefix |-> "", text |-> <<>>]
              ELSE [path |-> "appointment", called |-> TRUE, prefix |-> "Appointment",
                    text |-> _generateTimeRangeText(c.start, c.end, _lastStartDate)]
         ELSE [path |-> "time slot", called |-> TRUE,
               prefix |-> IF c.found THEN "has appointment" ELSE "",
               text |-> _generateTimeRangeText(c.start, c.end, _lastStartDate)]
    ELSE [path |-> "event_valueChange", called |-> FALSE, prefix |-> "", text |-> <<>>]

Call_generateTimeRangeText(startTime, endTime) ==
    /\ lastCall' = [op |-> "_generateTimeRangeText", called |-> TRUE,
                    path |-> "direct", prefix |-> "",
                    start |-> startTime, end |-> endTime,
                    text |-> _generateTimeRangeText(startTime, endTime, _lastStartDate)]
    /\ _lastStartDate' = startTime.day
    /\ lastRange' = [start |-> startTime.day, end |-> endTime.day]
    /\ UNCHANGED <<eoaVars, row, focus, messageListVars>>

Call_reportFocus(c) ==
    LET r == reportFocus(c) IN
    /\ lastCall' = [op |-> "reportFocus", called |-> r.called,
                    path |-> r.path, prefix |-> r.prefix,
                    start |-> c.start, end |-> c.end, text |-> r.text]
    /\ _lastStartDate' = IF r.called THEN c.start.day ELSE _lastStartDate
    /\ lastRange' = IF r.called THEN [start |-> c.start.day, end |-> c.end.day] ELSE lastRange
    /\ UNCHANGED <<eoaVars, row, focus, messageListVars>>

(***************************************************************************)
(* appModules/outlook.py: MessageList_pre2003 and MessageItem              *)
(*                                                                         *)
(* An argument of MessageItem.__init__ is None, the message list or a      *)
(* message of the object model.                                            *)
(***************************************************************************)
NoMessage == [entryID |-> 0, Class |-> 0]
Messages == [entryID : 1..MaxEntryID, Class : {40, 43}]

NoneArg == [kind |-> "None", msg |-> NoMessage]
ListArg == [kind |-> "list", msg |-> NoMessage]
MessageArg(m) == [kind |-> "message", msg |-> m]

NoItem == [windowHandle |-> NoneArg, parent |-> NoneArg, msg |-> NoneArg]

\* MessageItem.__init__(self, windowHandle=None, parent=None, msg=None): the
\* exception it ends with and the item it builds.  ArguementError is a name
\* the module never defines, so the raise statement raises NameError.
MessageItem(windowHandle, parent, msg) ==
    IF parent.kind = "None" \/ msg.kind = "None"
    THEN [raised |-> "NameError", item |-> NoItem]
    ELSE [raised |-> "none",
          item |-> [windowHandle |-> IF windowHandle.kind = "None" THEN parent
                                     ELSE windowHandle,
                    parent |-> parent, msg |-> msg]]

\* MessageItem(self,msg) of lines 197 and 214: both arguments are positional,
\* so the list is windowHandle, the message is parent and msg stays None.
newMessageItem(m) == MessageItem(ListArg, MessageArg(m), NoneArg)

\* The selections Outlook can answer with.
Selections ==
    {[outcome |-> "COMError", msg |-> NoMessage], [outcome |-> "None", msg |-> NoMessage]}
    \cup {[outcome |-> "message", msg |-> m] : m \in Messages}

\* msg of lines 191-195 and 208-212: NoMessage stands for None.  Without an
\* object model the attribute access raises, which the bare except catches.
selectedMessage(om, sel) ==
    IF ~om THEN NoMessage
    ELSE IF sel.outcome # "message" THEN NoMessage
    ELSE sel.msg

\* self.curMessageItem.msg.entryID, 0 for None
entryIDOf(item) == item.msg.msg.entryID

SendEvent(gesture) == [kind |-> "gesture.send", gesture |-> gesture, entryID |-> 0]
SuperFocusEvent == [kind |-> "super.event_gainFocus", gesture |-> "", entryID |-> 0]
ItemFocusEvent(item) ==
    [kind |-> "executeEvent gainFocus", gesture |-> "", entryID |-> entryIDOf(item)]

\* MessageList_pre2003.event_gainFocus: the exception it ends with, its events
\* in order and curMessageItem afterwards.
MessageList_event_gainFocus(om, sel, cur) ==
    LET msg == selectedMessage(om, sel) IN
    IF msg = NoMessage
    THEN [raised |-> "none", events |-> <<SuperFocusEvent>>, cur |-> cur, focused |-> FALSE]
    ELSE LET made == newMessageItem(msg) IN
         IF made.raised # "none"
         THEN [raised |-> made.raised, events |-> <<>>, cur |-> cur, focused |-> FALSE]
         ELSE [raised |-> "none",
               events |-> <<SuperFocusEvent, ItemFocusEvent(made.item)>>,
               cur |-> made.item, focused |-> TRUE]

\* oldEntryID of lines 203-206, 0 for None
oldEntryIDOf(cur) == IF cur # NoItem THEN entryIDOf(cur) ELSE 0

\* MessageList_pre2003.script_moveByMessage once gesture.send() has made
\* Outlook select sel.
script_moveByMessage(gesture, om, sel, cur) ==
    LET oldEntryID == oldEntryIDOf(cur)
        msg == selectedMessage(om, sel)
    IN  IF msg = NoMessage
        THEN [raised |-> "none", events |-> <<SendEvent(gesture)>>, cur |-> cur,
              focused |-> FALSE]
        ELSE LET made == newMessageItem(msg) IN
             IF made.raised # "none"
             THEN [raised |-> made.raised, events |-> <<SendEvent(gesture)>>, cur |-> cur,
                   focused |-> FALSE]
             ELSE IF entryIDOf(made.item) # oldEntryID
             THEN [raised |-> "none",
                   events |-> <<SendEvent(gesture), ItemFocusEvent(made.item)>>,
                   cur |-> made.item, focused |-> TRUE]
             ELSE [raised |-> "none", events |-> <<SendEvent(gesture)>>, cur |-> cur,
                   focused |-> FALSE]

\* __moveByMessageGestures
moveByMessageGestures == {"kb:downArrow", "kb:upArrow", "kb:home", "kb:end", "kb:delete"}

Call_MessageList_event_gainFocus ==
    LET r == MessageList_event_gainFocus(listNativeOm, listSelection, curMessageItem) IN
    /\ curMessageItem' = r.cur
    /\ focusedItem' = IF r.focused THEN r.cur ELSE focusedItem
    /\ lastCall' = [op |-> "MessageList_pre2003.event_gainFocus", raised |-> r.raised,
                    events |-> r.events, oldEntryID |-> oldEntryIDOf(curMessageItem)]
    /\ UNCHANGED <<eoaVars, row, focus, _lastStartDate, lastRange, listNativeOm, listSelection>>

\* The gesture is forwarded to Outlook, which selects what it selects.
Call_script_moveByMessage(gesture) ==
    \E sel \in Selections :
        LET r == script_moveByMessage(gesture, listNativeOm, sel, curMessageItem) IN
        /\ listSelection' = sel
        /\ curMessageItem' = r.cur
        /\ focusedItem' = IF r.focused THEN r.cur ELSE focusedItem
        /\ lastCall' = [op |-> "script_moveByMessage", raised |-> r.raised,
                        events |-> r.events, oldEntryID |-> oldEntryIDOf(curMessageItem)]
        /\ UNCHANGED <<eoaVars, row, focus, _lastStartDate, lastRange, listNativeOm>>

MessageListIdle ==
    /\ listNativeOm = FALSE
    /\ listSelection = [outcome |-> "None", msg |-> NoMessage]
    /\ curMessageItem = NoItem
    /\ focusedItem = NoItem

(***************************************************************************)
(* Initial states of the Outlook objects                                   *)
(***************************************************************************)
NoSelectionReads ==
    [unread |-> Fails(FALSE), attachmentCount |-> Fails(0),
     importance |-> Fails(1), messageClass |-> Fails("None")]

SelectionReads ==
    [unread : {Read(TRUE), Read(FALSE), Fails(FALSE)},
     attachmentCount : {Read(0), Read(2), Fails(0)},
     importance : {Read(0), Read(1), Read(2), Fails(1)},
     messageClass : {Read("IPM.Note"), Read("IPM.Schedule.Meeting.Request"), Fails("None")}]

ChildLists(n) == UNION {[1..k -> ChildKinds] : k \in 0..n}

MakeRow(states, nativeOm, selection, reads, children, reportTableHeaders) ==
    [states |-> states, nativeOm |-> nativeOm, selection |-> selection,
     unread |-> reads.unread, attachmentCount |-> reads.attachmentCount,
     importance |-> reads.importance, messageClass |-> reads.messageClass,
     children |-> children, reportTableHeaders |-> reportTableHeaders]

\* Every row; the reads of a selection that is never fetched are left out.
Rows ==
    {MakeRow(s, TRUE, "item", rd, ch, h) :
        s \in {{}, {"STATE_EXPANDED"}, {"STATE_COLLAPSED"}}, rd \in SelectionReads,
        ch \in ChildLists(MaxChildren), h \in BOOLEAN}
    \cup {MakeRow(s, om[1], om[2], NoSelectionReads, ch, h) :
        s \in {{}, {"STATE_EXPANDED"}, {"STATE_COLLAPSED"}},
        om \in {<<FALSE, "None">>, <<TRUE, "None">>, <<TRUE, "COMError">>},
        ch \in ChildLists(MaxChildren), h \in BOOLEAN}

IdleRow == MakeRow({}, FALSE, "None", NoSelectionReads, <<>>, FALSE)

OutlookVersions == (UIAMinOutlookVersion - 2)..(UIAMinOutlookVersion + 1)

FocusObjects ==
    [outlookVersion : OutlookVersions, handler : BOOLEAN,
     uiaFocus : {"COMError", "RuntimeError", "UIAGridRow", "UIA"},
     parent : {"grid parent", "other parent"},
     uiaParent : {"UIA parent", "grid parent"}]

Days == 1..MaxDay
Times == [day : Days, time : {540, 1050}]

\* What a reportFocus call meets; an answer that is never asked for (the
\* appointment's times when nothing is selected, the search when something is)
\* is held fixed.
CalendarCalls ==
    {c \in [outlookVersion : {CalendarMinOutlookVersion - 1, CalendarMinOutlookVersion},
            nativeOm : BOOLEAN, selectionCount : {0, 1}, readOk : BOOLEAN, found : BOOLEAN,
            start : Times, end : Times] :
        /\ c.selectionCount = 0 => c.readOk
        /\ c.selectionCount > 0 => ~c.found
        /\ (c.outlookVersion < CalendarMinOutlookVersion \/ ~c.nativeOm)
              => (c.selectionCount = 0 /\ ~c.found)}

IdleFocus ==
    [outlookVersion |-> UIAMinOutlookVersion, handler |-> FALSE, uiaFocus |-> "UIA",
     parent |-> "grid parent", uiaParent |-> "UIA parent"]

OutlookIdle ==
    /\ row = IdleRow
    /\ focus = IdleFocus
    /\ _lastStartDate = NoDate
    /\ lastRange = NoRange
    /\ MessageListIdle

(***************************************************************************)
(* Specifications of easeOfAccess.py                                       *)
(***************************************************************************)
AutoStartInit ==
    /\ RegistryInit
    /\ NotifyIdle
    /\ OutlookIdle
    /\ lastCall = IdleCall

AutoStartNext ==
    \/ CallIsRegistered
    \/ CallWillAutoStart
    \/ \E enable \in BOOLEAN : CallSetAutoStart(enable)

SpecAutoStart == AutoStartInit /\ [][AutoStartNext]_vars

NotifyInit ==
    /\ RegistryFixed
    /\ atKey \in {"missing", "noaccess", "present"}
    /\ tempKey \in {"ok", "noaccess"}
    /\ tempValue \in {NoValue} \cup (1..MaxSignal)
    /\ keysDown \in SUBSET Range(Modifiers)
    /\ OutlookIdle
    /\ lastCall = IdleCall

NotifyNext ==
    \/ CallIsRegistered
    \/ \E signal \in 1..MaxSignal : CallNotify(signal)

SpecNotify == NotifyInit /\ [][NotifyNext]_vars

(***************************************************************************)
(* Properties of easeOfAccess.py                                           *)
(***************************************************************************)
\* The list as stored: the elements of the "Configuration" string.
StoredList == IF cfgState = "present" THEN Split(cfgValue) ELSE <<>>

\* The identifiers of other tools, in their stored order.
OtherIdentifiers ==
    SelectSeq(StoredList, LAMBDA e : e # <<>> /\ e # APP_KEY_NAME)

\* C1: whenever setAutoStart(hkey, True) returns normally, a following
\* willAutoStart(hkey) returns True: the identifier nvda_nvda_v1 is a member of
\* the stored comma-separated list, whatever the list held before.
C1_EnableThenWillAutoStart ==
    (lastCall.op = "setAutoStart" /\ lastCall.enable /\ lastCall.raised = "none")
        => /\ willAutoStart.raised = "none"
           /\ willAutoStart.value = TRUE
           /\ APP_KEY_NAME \in Range(StoredList)

\* setAutoStart(hkey, True) has returned normally where the list was empty or
\* the value missing: the stored string is the identifier alone.
C1_Witness ==
    /\ lastCall.op = "setAutoStart" /\ lastCall.enable /\ lastCall.raised = "none"
    /\ lastCall.wrote /\ ~lastCall.wasEnabled
    /\ cfgValue = APP_KEY_NAME

\* C2: whenever setAutoStart(hkey, False) returns normally, a following
\* willAutoStart(hkey) returns False, also when the identifier occurred more
\* than once in the list.
C2_DisableThenWillNotAutoStart ==
    (lastCall.op = "setAutoStart" /\ ~lastCall.enable /\ lastCall.raised = "none")
        => willAutoStart.value = FALSE

\* C3: setAutoStart ends by returning or by raising WindowsError or
\* FileNotFoundError and in no other way, and a call whose enable equals the
\* current auto-start state returns normally.
C3_SetAutoStartEndings ==
    lastCall.op = "setAutoStart"
        => /\ lastCall.raised \in {"none", "WindowsError", "FileNotFoundError"}
           /\ (lastCall.enable = lastCall.wasEnabled => lastCall.raised = "none")

\* C4: isRegistered and willAutoStart never let an error escape and never modify
\* the registry; isRegistered returns True exactly when the AT key opens;
\* willAutoStart returns False, from an empty configuration list, when ROOT_KEY
\* is missing or cannot be opened, when "Configuration" is missing or
\* unreadable, and when it is the empty string.
C4_ReadOnlyOperations ==
    [][/\ lastCall'.op = "isRegistered"
            => /\ lastCall'.raised = "none"
               /\ lastCall'.result = (atKey = "present")
               /\ UNCHANGED eoaVars
       /\ lastCall'.op = "willAutoStart"
            => /\ lastCall'.raised = "none"
               /\ UNCHANGED eoaVars
               /\ (\/ rootKey \in {"missing", "noaccess"}
                   \/ cfgState \in {"missing", "unreadable"}
                   \/ cfgValue = <<>>)
                    => (lastCall'.result = FALSE /\ lastCall'.conf = <<>>)
      ]_vars

\* willAutoStart has answered False on an unreadable "Configuration" value, in
\* a registry whose AT key cannot be opened either.
C4_Witness ==
    /\ lastCall.op = "willAutoStart" /\ lastCall.result = FALSE
    /\ lastCall.raised = "none"
    /\ cfgState = "unreadable" /\ atKey = "noaccess"

\* C9: setAutoStart changes only the membership of nvda_nvda_v1: the other
\* identifiers and their order are the same before and after every call,
\* enabling appends the identifier at the end of the list that was read, and a
\* call that needs no change writes nothing to the registry.
C9_OnlyMembershipChanges ==
    [][/\ OtherIdentifiers' = OtherIdentifiers
       /\ lastCall'.op = "setAutoStart"
            => /\ (lastCall'.enable /\ lastCall'.wrote)
                    => StoredList' = Append(_getAutoStartConfiguration.value, APP_KEY_NAME)
               /\ (lastCall'.enable = willAutoStart.value)
                    => (~lastCall'.wrote /\ UNCHANGED eoaVars)
      ]_vars

\* Enabling has been written on a list holding two other identifiers.
C9_Witness ==
    /\ lastCall.op = "setAutoStart" /\ lastCall.enable /\ lastCall.wrote
    /\ OtherIdentifiers = << <<"x">>, <<"x", "x">> >>
    /\ StoredList[Len(StoredList)] = APP_KEY_NAME

\* A key-down and a key-up event of one virtual key.
KeyDown(vk) == [vk |-> vk, keyUp |-> FALSE]
KeyUp(vk) == [vk |-> vk, keyUp |-> TRUE]

\* The members of H among Shift, Control and Alt, in that order.
HeldInOrder(H) ==
    SelectSeq(<<"VK_SHIFT", "VK_CONTROL", "VK_MENU">>, LAMBDA vk : vk \in H)

\* The key chord for the held modifiers H, written out event by event.
ChordFor(H) ==
    LET h == HeldInOrder(H) IN
    [i \in 1..Len(h) |-> KeyUp(h[i])]
    \o <<KeyDown("0x5B"), KeyDown("0x55"), KeyUp("0x55"), KeyUp("0x5B")>>
    \o [i \in 1..Len(h) |-> KeyDown(h[Len(h) + 1 - i])]

\* The SendInput calls among the effects of a call.
SendInputs(effects) == SelectSeq(effects, LAMBDA e : e.kind = "SendInput")

\* C5: when registered, a notify call that reaches SendInput sends one input
\* sequence which, for the set H of Shift, Control and Alt held at the call, is
\* key-up for each key of H, Win down, U down, U up, Win up, key-down for each
\* key of H in reverse order.  It has 2*(|H|+2) events, Win and U go down while
\* no key of H is down, every key the sequence presses that was not held before
\* is released by it, and afterwards Shift, Control and Alt are as before.
C5_KeyChord ==
    [][(lastCall'.op = "notify" /\ atKey = "present" /\ lastCall'.raised = "none")
        => LET H == keysDown
               sent == SendInputs(lastCall'.effects)
               inputs == sent[1].inputs
           IN  /\ Len(sent) = 1
               /\ inputs = ChordFor(H)
               /\ Len(inputs) = 2 * (Cardinality(H) + 2)
               /\ \A i \in 1..Len(inputs) :
                    (inputs[i] \in {KeyDown("0x5B"), KeyDown("0x55")})
                        => KeysAfter(keysDown, inputs, i - 1) \cap H = {}
               /\ \A i \in 1..Len(inputs) :
                    (~inputs[i].keyUp /\ inputs[i].vk \notin H)
                        => \E j \in (i + 1)..Len(inputs) : inputs[j] = KeyUp(inputs[i].vk)
               /\ keysDown' = keysDown
      ]_vars

\* notify has sent the ten events of the chord with Shift, Control and Alt held.
C5_Witness ==
    /\ lastCall.op = "notify" /\ atKey = "present" /\ lastCall.raised = "none"
    /\ keysDown = {"VK_SHIFT", "VK_CONTROL", "VK_MENU"}
    /\ Len(lastCall.effects) = 2
    /\ Len(lastCall.effects[2].inputs) = 10

\* C6: when the AT key is not registered, notify has no effect: it writes no
\* value under AccessibilityTemp and sends no keyboard input.  When registered,
\* the signal is written to AccessibilityTemp before the key chord is sent.
C6_NotifyEffects ==
    [][lastCall'.op = "notify"
        => /\ atKey # "present"
                => (lastCall'.effects = <<>> /\ lastCall'.raised = "none" /\ UNCHANGED eoaVars)
           /\ atKey = "present"
                => \A i \in 1..Len(lastCall'.effects) :
                     lastCall'.effects[i].kind = "SendInput"
                        => /\ \E j \in 1..(i - 1) :
                                /\ lastCall'.effects[j].kind = "SetValueEx"
                                /\ lastCall'.effects[j].value = lastCall'.signal
                           /\ tempValue' = lastCall'.signal
      ]_vars

\* notify has been called with modifiers held while the AT key is missing, and
\* the value under AccessibilityTemp is not the signal of the call.
C6_Witness ==
    /\ lastCall.op = "notify" /\ atKey = "missing"
    /\ lastCall.effects = <<>>
    /\ keysDown # {} /\ tempValue # lastCall.signal

(***************************************************************************)
(* Specifications of appModules/outlook.py                                 *)
(***************************************************************************)
EaseOfAccessIdle ==
    /\ RegistryFixed
    /\ atKey = "missing"
    /\ NotifyIdle

GridRowInit ==
    /\ EaseOfAccessIdle
    /\ row \in Rows
    /\ focus = IdleFocus
    /\ _lastStartDate = NoDate
    /\ lastRange = NoRange
    /\ MessageListIdle
    /\ lastCall = IdleCall

GridRowNext == Call_get_name

SpecGridRow == GridRowInit /\ [][GridRowNext]_vars

FocusInit ==
    /\ EaseOfAccessIdle
    /\ row = IdleRow
    /\ focus \in FocusObjects
    /\ _lastStartDate = NoDate
    /\ lastRange = NoRange
    /\ MessageListIdle
    /\ lastCall = IdleCall

FocusNext == Call_event_gainFocus

SpecFocus == FocusInit /\ [][FocusNext]_vars

CalendarInit ==
    /\ EaseOfAccessIdle
    /\ OutlookIdle
    /\ lastCall = IdleCall

CalendarNext ==
    \/ \E startTime \in Times, endTime \in Times :
            Call_generateTimeRangeText(startTime, endTime)
    \/ \E c \in CalendarCalls : Call_reportFocus(c)

SpecCalendar == CalendarInit /\ [][CalendarNext]_vars

(***************************************************************************)
(* Properties of appModules/outlook.py                                     *)
(***************************************************************************)
\* Whether the selected item is fetched: the object model exists and the fetch
\* gives an item.
SelectionFetched == row.nativeOm /\ row.selection = "item"

\* The labels and the column texts of a name.
HasLabel(name, t) == Label(t) \in Range(name)
Columns(name) == SelectSeq(name, LAMBDA e : e.kind = "column")

\* The texts of the children that are named cells, in order.
RECURSIVE CellTexts(_)
CellTexts(children) ==
    IF children = <<>> THEN <<>>
    ELSE LET c == Head(children) IN
         (IF ~c.isGridRow /\ c.role # "ROLE_GRAPHIC" /\ c.name # ""
          THEN <<[kind |-> "column",
                  header |-> IF row.reportTableHeaders THEN c.columnHeaderText ELSE "",
                  text |-> c.name]>>
          ELSE <<>>) \o CellTexts(Tail(children))

\* C7: no COMError escapes _get_name, whether it is raised by the fetch of the
\* selection or by the read of unread, attachments.count, importance or
\* messageClass; a property whose read fails adds no label, a property that is
\* read adds its label exactly when its value calls for one, and the texts of
\* the child columns are in the name all the same.
C7_NameSuppressesCOMError ==
    lastCall.op = "_get_name"
        => /\ lastCall.raised = "none"
           /\ Columns(lastCall.name) = CellTexts(row.children)
           /\ HasLabel(lastCall.name, "unread")
                <=> (SelectionFetched /\ row.unread.ok /\ row.unread.value)
           /\ HasLabel(lastCall.name, "has attachment")
                <=> (SelectionFetched /\ row.attachmentCount.ok /\ row.attachmentCount.value > 0)
           /\ HasLabel(lastCall.name, "high importance")
                <=> (SelectionFetched /\ row.importance.ok /\ row.importance.value = 2)
           /\ HasLabel(lastCall.name, "low importance")
                <=> (SelectionFetched /\ row.importance.ok /\ row.importance.value = 0)
           /\ HasLabel(lastCall.name, "meeting request")
                <=> (SelectionFetched /\ row.messageClass.ok
                     /\ row.messageClass.value = "IPM.Schedule.Meeting.Request")

\* The read of importance has raised COMError on an unread message with an
\* attachment, and the name holds both labels and the text of a child column.
C7_Witness ==
    /\ lastCall.op = "_get_name" /\ lastCall.raised = "none"
    /\ SelectionFetched /\ ~row.importance.ok
    /\ row.unread.ok /\ row.unread.value /\ row.attachmentCount = Read(2)
    /\ ~row.messageClass.ok
    /\ lastCall.name = <<Label("unread"), Label("has attachment"), ColumnText("From", "Alice")>>

\* Whether event_gainFocus takes the UIA path for this object.
UIAFocusUsable ==
    /\ focus.outlookVersion >= 14
    /\ focus.handler
    /\ focus.uiaFocus = "UIAGridRow"

\* C8: event_gainFocus produces exactly one focus announcement per call: the
\* gainFocus event on the UIA focus object, whose parent is then the grid's
\* parent, if and only if outlookVersion >= 14, a UIA handler exists, the UIA
\* focus is retrieved and is a UIAGridRow; the inherited event_gainFocus in
\* every other case; never both.
C8_OneFocusAnnouncement ==
    lastCall.op = "event_gainFocus"
        => /\ Len(lastCall.events) = 1
           /\ lastCall.events[1].kind \in {"executeEvent gainFocus", "super.event_gainFocus"}
           /\ lastCall.events[1].kind = "executeEvent gainFocus" <=> UIAFocusUsable
           /\ UIAFocusUsable
                => /\ lastCall.events[1].objClass = "UIAGridRow"
                   /\ lastCall.events[1].objParent = focus.parent

\* The UIA event has been executed in Outlook 14 on a row whose own UIA parent
\* is not the grid's parent.
C8_Witness ==
    /\ lastCall.op = "event_gainFocus"
    /\ focus.outlookVersion = 14 /\ focus.handler /\ focus.uiaFocus = "UIAGridRow"
    /\ focus.uiaParent # focus.parent
    /\ lastCall.events[1].kind = "executeEvent gainFocus"

\* The part of a range text before the word "to", and the part after it.
RECURSIVE BeforeTo(_)
BeforeTo(text) ==
    IF text = <<>> \/ Head(text).kind = "to" THEN <<>>
    ELSE <<Head(text)>> \o BeforeTo(Tail(text))

AfterTo(text) == SubSeq(text, Len(BeforeTo(text)) + 2, Len(text))

HasDate(part, day) == [kind |-> "date", value |-> day] \in Range(part)

\* C10: after each _generateTimeRangeText call _lastStartDate is the start date
\* of that call; the start date is left out of the text if and only if there
\* was a call before, the start date is that call's start date and the end date
\* is the start date; the end date is in the text if and only if it differs
\* from the start date.  A call of reportFocus that does not reach
\* _generateTimeRangeText leaves _lastStartDate alone.
C10_CalendarDates ==
    [][/\ lastCall'.called
            => /\ _lastStartDate' = lastCall'.start.day
               /\ ~HasDate(BeforeTo(lastCall'.text), lastCall'.start.day)
                    <=> /\ lastRange # NoRange
                        /\ lastCall'.start.day = lastRange.start
                        /\ lastCall'.end.day = lastCall'.start.day
               /\ HasDate(AfterTo(lastCall'.text), lastCall'.end.day)
                    <=> lastCall'.end.day # lastCall'.start.day
               /\ Len(lastCall'.text) = 3
                    + (IF HasDate(BeforeTo(lastCall'.text), lastCall'.start.day) THEN 1 ELSE 0)
                    + (IF HasDate(AfterTo(lastCall'.text), lastCall'.end.day) THEN 1 ELSE 0)
       /\ ~lastCall'.called => _lastStartDate' = _lastStartDate
      ]_vars

\* reportFocus has announced a second range within day 1 and left the date out.
C10_Witness ==
    /\ lastCall.op = "reportFocus" /\ lastCall.called
    /\ lastCall.start.day = 1 /\ lastCall.end.day = 1
    /\ _lastStartDate = 1
    /\ lastCall.text = <<[kind |-> "time", value |-> 540], ToWord, [kind |-> "time", value |-> 1050]>>

(***************************************************************************)
(* Specification and properties of MessageList_pre2003                     *)
(***************************************************************************)
MessageListInit ==
    /\ EaseOfAccessIdle
    /\ row = IdleRow
    /\ focus = IdleFocus
    /\ _lastStartDate = NoDate
    /\ lastRange = NoRange
    /\ listNativeOm \in BOOLEAN
    /\ listSelection \in Selections
    /\ curMessageItem = NoItem           \* the attribute is set by the handlers only
    /\ focusedItem = NoItem
    /\ lastCall = IdleCall

MessageListNext ==
    \/ Call_MessageList_event_gainFocus
    \/ \E gesture \in moveByMessageGestures : Call_script_moveByMessage(gesture)

SpecMessageList == MessageListInit /\ [][MessageListNext]_vars

\* Whether events holds a gainFocus event for a message item.
HasItemFocusEvent(events) ==
    \E i \in 1..Len(events) : events[i].kind = "executeEvent gainFocus"

\* C11: script_moveByMessage forwards the gesture first, then executes a
\* gainFocus event for a message item if and only if a selected message can be
\* retrieved and its entryID differs from the entryID of the current message
\* item (or there is no current item); curMessageItem is replaced exactly then
\* and is left alone otherwise, so after every call of either handler
\* curMessageItem is the item of the latest message-item gainFocus event.
C11_MoveByMessage ==
    /\ curMessageItem = focusedItem
    /\ lastCall.op = "script_moveByMessage"
        => LET retrieved == listNativeOm /\ listSelection.outcome = "message"
               differs == retrieved /\ listSelection.msg.entryID # lastCall.oldEntryID
           IN  /\ lastCall.events # <<>>
               /\ lastCall.events[1].kind = "gesture.send"
               /\ HasItemFocusEvent(lastCall.events) <=> differs
               /\ differs => entryIDOf(curMessageItem) = listSelection.msg.entryID
               /\ ~differs => oldEntryIDOf(curMessageItem) = lastCall.oldEntryID

====
